---- MODULE Spec2Model ----
(***************************************************************************)
(* A state-machine model of the GeminiImageEditor class of src/script.js:  *)
(* the API key and its storage, the form, the FileReader that installs the *)
(* selected image, and the asynchronous edit request (processImageEdit ->  *)
(* callGeminiAPI -> generateModifiedImages -> createModifiedImage / the    *)
(* fallback).  Spec is the whole page; ComposerSpec is the composition of  *)
(* the variants alone, over a wider choice of enhanced prompts; PixelSpec  *)
(* is the two loops that rewrite a canvas's pixels (applyColorEffect and   *)
(* the sepia branch of addVariationEffect), over small canvases kept in    *)
(* the variable pixels as Uint8ClampedArray contents.                      *)
(*                                                                         *)
(* Text is a sequence of one-character strings, so that trim, toLowerCase, *)
(* includes, parseInt and template concatenation are computed as the code  *)
(* computes them.  One action is one event-loop task: an event handler or  *)
(* a promise continuation together with the microtasks that follow it.     *)
(*                                                                         *)
(* An encoded image is kept as the data it was drawn from and the drawing  *)
(* calls made on its canvas, each with the random number it drew.          *)
(*                                                                         *)
(* Left out, because no handler reads them back: the preview <img>, the    *)
(* drag-over class, the button's "disabled" CSS class and its loader/text  *)
(* spans (the loader is shown exactly while isProcessing), the success     *)
(* toast, the API status line, the key field's visibility toggle, result   *)
(* timestamps and console output.                                          *)
(***************************************************************************)
EXTENDS Integers, Naturals, Sequences, FiniteSets, TLC

\* ------------------------------------------------------------------ text

WhiteSpace == {" ", "\t", "\n", "\r"}

Upper == <<"A", "B", "C", "D", "E", "F", "G", "H", "I", "J", "K", "L", "M", "N", "O", "P", "Q", "R", "S", "T", "U", "V", "W", "X", "Y", "Z">>

Lower == <<"a", "b", "c", "d", "e", "f", "g", "h", "i", "j", "k", "l", "m", "n", "o", "p", "q", "r", "s", "t", "u", "v", "w", "x", "y", "z">>

Digits == <<"0", "1", "2", "3", "4", "5", "6", "7", "8", "9">>

\* String.prototype.trim: whitespace removed from both ends.
RECURSIVE TrimStart(_)
TrimStart(s) ==
    IF s # <<>> /\ Head(s) \in WhiteSpace THEN TrimStart(Tail(s)) ELSE s

RECURSIVE TrimEnd(_)
TrimEnd(s) ==
    IF s # <<>> /\ s[Len(s)] \in WhiteSpace
    THEN TrimEnd(SubSeq(s, 1, Len(s) - 1))
    ELSE s

Trim(s) == TrimEnd(TrimStart(s))

\* String.prototype.toLowerCase, on the ASCII letters.
LowerChar(c) ==
    IF \E k \in 1..Len(Upper) : Upper[k] = c
    THEN Lower[CHOOSE k \in 1..Len(Upper) : Upper[k] = c]
    ELSE c

ToLowerCase(s) == [k \in 1..Len(s) |-> LowerChar(s[k])]

\* String.prototype.includes: t occurs in s as a contiguous run.
Includes(s, t) ==
    \E k \in 1..(Len(s) - Len(t) + 1) : SubSeq(s, k, k + Len(t) - 1) = t

\* parseInt(s) in radix 10: leading whitespace skipped, an optional sign,
\* then the longest run of digits; NaN when there is no digit.
IsDigit(c) == \E k \in 1..Len(Digits) : Digits[k] = c

DigitVal(c) == (CHOOSE k \in 1..Len(Digits) : Digits[k] = c) - 1

RECURSIVE ParseDigits(_, _)
ParseDigits(s, acc) ==
    IF s # <<>> /\ IsDigit(Head(s))
    THEN ParseDigits(Tail(s), 10 * acc + DigitVal(Head(s)))
    ELSE acc

ParseInt(s) ==
    LET t == TrimStart(s)
        signed == t # <<>> /\ Head(t) \in {"-", "+"}
        neg == t # <<>> /\ Head(t) = "-"
        d == IF signed THEN Tail(t) ELSE t
    IN  IF d = <<>> \/ ~IsDigit(Head(d))
        THEN [nan |-> TRUE, val |-> 0]
        ELSE [nan |-> FALSE,
              val |-> IF neg THEN 0 - ParseDigits(d, 0) ELSE ParseDigits(d, 0)]

\* x || 1 for a number x: NaN and 0 are falsy.
OrOne(p) == IF p.nan \/ p.val = 0 THEN 1 ELSE p.val

\* ---------------------------------------------------------------- inputs

\* What the user can type into promptInput.
PromptRed == <<"R", "e", "d", " ", "c", "a", "r">>

PromptInputs == {<<>>, <<" ">>, PromptRed}

\* What the user can type into youtubeTitle.
TitleHi == <<"H", "i">>

TitleDark == <<" ", "d", "a", "r", "k", " ">>

TitleInputs == {<<>>, TitleHi, TitleDark}

\* The values of the textStyle field that addTextOverlay distinguishes.
Style3DMetallic == <<"3", "D", " ", "m", "e", "t", "a", "l", "l", "i", "c">>

StyleBalloon == <<"b", "a", "l", "l", "o", "o", "n">>

StyleMatrix == <<"M", "a", "t", "r", "i", "x">>

StyleInputs == {<<>>, Style3DMetallic, StyleBalloon, StyleMatrix}

\* What the numberOfImages field can hold.
NumOne == <<"1">>

NumTwo == <<"2">>

NumFour == <<"4">>

NumFive == <<"5">>

NumZero == <<"0">>

NumNeg == <<"-", "1">>

NumWord == <<"t", "w", "o">>

NumberInputs ==
    {NumOne, NumTwo, NumFour, NumFive, NumZero, NumNeg, NumWord}

\* The text of the analysis response, when it carries one.
ApiText == <<"d", "a", "r", "k", "e", "r", " ", "b", "l", "u", "e">>

ApiTexts == {<<>>, ApiText}

\* Enhanced prompts for the composer on its own: the analysis may answer
\* with any text.
PromptBrightBlue == <<"m", "a", "k", "e", " ", "i", "t", " ", "b", "r", "i", "g", "h", "t", " ", "a", "n", "d", " ", "b", "l", "u", "e">>

PromptSoftShadow == <<"S", "o", "f", "t", " ", "S", "H", "A", "D", "O", "W">>

PromptColor == <<"C", "O", "L", "O", "R", " ", "p", "o", "p">>

PromptDelight == <<"d", "e", "l", "i", "g", "h", "t">>

PromptBlurred == <<"B", "L", "U", "R", "R", "E", "D">>

PromptAll == <<"r", "e", "d", " ", "l", "i", "g", "h", "t", " ", "d", "a", "r", "k", " ", "b", "l", "u", "r">>

PromptSharpen == <<"s", "h", "a", "r", "p", "e", "n">>

PromptBlu == <<"b", "l", "u", " ", "r", "-", "e", "-", "d">>

ComposerPrompts ==
    {PromptBrightBlue, PromptSoftShadow, PromptColor, PromptDelight,
     PromptBlurred, PromptAll, PromptSharpen, PromptBlu}

\* Titles and styles for the composer on its own: a title of white space
\* only, and a style value addTextOverlay has no case for (the README's
\* spelling of the metallic style).
TitleBlank == <<" ", "\t">>

ComposerTitles == TitleInputs \cup {TitleBlank}

Style3DMetallicLabel == <<"3", "D", " ", "M", "e", "t", "a", "l", "l", "i", "c">>

ComposerStyles == StyleInputs \cup {Style3DMetallicLabel}

\* The files the user can pick or drop: name |-> <<MIME type, subtype>> and
\* the base64 of the contents.
NoFile == "null"

FileNames == {"a.png", "b.jpg", "notes.txt"}

FileType(f) ==
    CASE f = "a.png" -> <<"image", "png">>
      [] f = "b.jpg" -> <<"image", "jpeg">>
      [] OTHER -> <<"text", "plain">>

FileData(f) ==
    CASE f = "a.png" -> "base64(a)"
      [] f = "b.jpg" -> "base64(b)"
      [] OTHER -> "base64(notes)"

\* file.type.startsWith('image/')
IsImageType(t) == t[1] = "image"

\* FileReader.readAsDataURL: "data:<type>;base64,<data>", kept as its
\* comma-separated parts.
ReadAsDataURL(f) == <<FileType(f), FileData(f)>>

\* What the user can type into apiKeyInput: the key of config-template.md,
\* keys of 30 and of 29 characters, a key with another prefix, a key between
\* spaces, a blank.
KeyPrefix == <<"A", "I", "z", "a">>

KeyValid == <<"A", "I", "z", "a", "S", "y", "C", "-", "e", "x", "a", "m", "p", "l", "e", "-", "a", "p", "i", "-", "k", "e", "y", "-", "h", "e", "r", "e", "-", "1", "2", "3", "4", "5", "6", "7", "8", "9", "0", "a", "b", "c", "d", "e", "f">>

Key30 == <<"A", "I", "z", "a", "S", "y", "D", "-", "0", "1", "2", "3", "4", "5", "6", "7", "8", "9", "-", "a", "b", "c", "d", "e", "f", "g", "h", "i", "j", "k">>

Key29 == <<"A", "I", "z", "a", "S", "y", "D", "-", "0", "1", "2", "3", "4", "5", "6", "7", "8", "9", "-", "a", "b", "c", "d", "e", "f", "g", "h", "i", "j">>

KeyWrongPrefix == <<"B", "I", "z", "a", "S", "y", "C", "-", "e", "x", "a", "m", "p", "l", "e", "-", "a", "p", "i", "-", "k", "e", "y", "-", "h", "e", "r", "e", "-", "1", "2", "3", "4", "5", "6", "7", "8", "9", "0", "a", "b", "c", "d", "e", "f">>

KeyPadded == <<" ">> \o Key30 \o <<" ">>

KeyBlank == <<" ", " ">>

KeyInputs == {<<>>, KeyBlank, KeyWrongPrefix, Key29, KeyPadded, KeyValid}

\* localStorage.getItem('gemini_api_key') when the page is opened: null, a
\* key an earlier session saved, or an item written by other means (the
\* browser's storage tools, another page of the origin), which can be any
\* text.
NoKey == <<>>

StoredKeys == {NoKey, KeyValid, Key29}

\* testApiKey accepts keys of at least this many characters.
MinKeyLength == 30

\* At most this many FileReaders are pending at once.
MaxReaders == 1

\* At most this many user events (clicks, edits, file selections) are handled
\* in one session.
MaxEvents == 4

\* At most this many image loads of one request fire error.
MaxImageErrors == 1

\* ----------------------------------------------------------------- state

VARIABLES
    apiKey,             \* this.apiKey: NoKey (null) or a key
    storedKey,          \* localStorage's item 'gemini_api_key'
    apiKeyInput,        \* this.apiKeyInput.value
    apiConfigShown,     \* apiConfigSection is displayed
    mainAppShown,       \* mainApp is displayed
    saves,              \* the keys of the saveApiKey calls awaiting testApiKey
    selectedImage,      \* this.selectedImage: <<>> (null) or a data URL
    selectedImageFile,  \* this.selectedImageFile: NoFile or a file
    readers,            \* files whose FileReader has not fired yet
    promptInput,        \* this.promptInput.value
    youtubeTitle,       \* this.youtubeTitle.value
    textStyle,          \* this.textStyle.value
    numberOfImages,     \* this.numberOfImages.value
    isProcessing,       \* this.isProcessing
    loadingOverlay,     \* loadingOverlay is displayed
    editBtnDisabled,    \* this.editImageBtn.disabled
    resultsGrid,        \* the result items displayed in resultsGrid
    resultsShown,       \* resultsSection is displayed
    errorToast,         \* the error toast's message, "" when hidden
    pc,                 \* where the edit request is suspended
    run,                \* the locals of the request in flight
    req,                \* history: the form as it was when the request started,
                        \* and whether the results were cleared or the form
                        \* reset while the last request was in flight
    events,             \* history: the user events handled so far
    outcome,            \* history: how the last request ended
    call,               \* history: "returned" or "started" when the last
                        \* handler was processImageEdit, "keyRejected",
                        \* "keyFailed" or "keyPending" when it was
                        \* saveApiKey, "" otherwise
    pixels              \* the ImageData of the canvas a callback is working
                        \* on; NoPixels between two tasks

vars ==
    <<apiKey, storedKey, apiKeyInput, apiConfigShown, mainAppShown, saves,
      selectedImage, selectedImageFile, readers, promptInput, youtubeTitle,
      textStyle, numberOfImages, isProcessing, loadingOverlay,
      editBtnDisabled, resultsGrid, resultsShown, errorToast,
      pc, run, req, events, outcome, call, pixels>>

keyVars ==
    <<apiKey, storedKey, apiKeyInput, apiConfigShown, mainAppShown, saves>>

imageVars == <<selectedImage, selectedImageFile, readers>>

formVars == <<promptInput, youtubeTitle, textStyle, numberOfImages>>

busyVars == <<isProcessing, loadingOverlay>>

resultVars == <<resultsGrid, resultsShown>>

runVars == <<pc, run, req, outcome>>

pageVars ==
    <<keyVars, imageVars, formVars, busyVars, editBtnDisabled, resultVars,
      errorToast, runVars, events, call>>

\* No callback is running: no canvas is being worked on.
NoPixels == [source |-> <<>>, data |-> <<>>, op |-> ""]

\* The locals of processImageEdit, callGeminiAPI and generateModifiedImages
\* when no request is in flight.
NoRun ==
    [fullPrompt |-> <<>>, imageBase64 |-> "", count |-> 0,
     enhancedPrompt |-> <<>>, i |-> 0, results |-> <<>>, imgSrc |-> <<>>,
     errors |-> 0, decodes |-> 0]

NoReq ==
    [prompt |-> <<>>, title |-> <<>>, style |-> <<>>, number |-> <<>>,
     type |-> <<>>, data |-> "", cleared |-> FALSE]

\* The constructor, with loadSavedApiKey at its end.  The page is taken to
\* open on the configuration section with the main application hidden,
\* which is the display showMainApp reverses.
Init ==
    /\ storedKey \in StoredKeys
    /\ apiKey = storedKey
    /\ apiKeyInput = storedKey
    /\ apiConfigShown = (storedKey = NoKey)
    /\ mainAppShown = (storedKey # NoKey)
    /\ saves = <<>>
    /\ selectedImage = <<>>
    /\ selectedImageFile = NoFile
    /\ readers = {}
    /\ promptInput = <<>>
    /\ youtubeTitle = <<>>
    /\ textStyle = <<>>
    /\ numberOfImages = NumOne
    /\ isProcessing = FALSE
    /\ loadingOverlay = FALSE
    /\ editBtnDisabled \in BOOLEAN   \* set by the page's markup, not by the script
    /\ resultsGrid = <<>>
    /\ resultsShown = FALSE
    /\ errorToast = ""
    /\ pc = "idle"
    /\ run = NoRun
    /\ req = NoReq
    /\ events = 0
    /\ outcome = "none"
    /\ call = ""
    /\ pixels = NoPixels

\* ------------------------------------------------------------ the form

\* validateForm without its isProcessing term.
ValidateFormIgnoringBusy(image, prompt, processing) ==
    ~(image # <<>> /\ Trim(prompt) # <<>>)

\* validateForm: the value it gives editImageBtn.disabled.
ValidateForm(image, prompt, processing) ==
    LET hasImage == image # <<>>
        hasPrompt == Trim(prompt) # <<>>
        isValid == hasImage /\ hasPrompt
    IN  ~isValid \/ processing

\* A user event, within the session's budget.
UserEvent ==
    /\ events < MaxEvents
    /\ events' = events + 1

\* A user event on a control of the main application, which takes none
\* while it is hidden.
InMainApp == mainAppShown /\ UserEvent

\* A user event on a control of the configuration section.
InApiConfig == apiConfigShown /\ UserEvent

\* The 'input' listener of promptInput.
TypePrompt ==
    \E v \in PromptInputs :
        /\ v # promptInput
        /\ InMainApp
        /\ promptInput' = v
        /\ editBtnDisabled' = ValidateForm(selectedImage, v, isProcessing)
        /\ call' = ""
        /\ UNCHANGED <<keyVars, pixels>>
        /\ UNCHANGED <<imageVars, youtubeTitle, textStyle, numberOfImages,
                       busyVars, resultVars, errorToast, runVars>>

\* The other three fields have no listener.
TypeTitle ==
    \E v \in TitleInputs :
        /\ v # youtubeTitle
        /\ InMainApp
        /\ youtubeTitle' = v
        /\ call' = ""
        /\ UNCHANGED <<keyVars, pixels>>
        /\ UNCHANGED <<imageVars, promptInput, textStyle, numberOfImages,
                       busyVars, editBtnDisabled, resultVars, errorToast,
                       runVars>>

SelectStyle ==
    \E v \in StyleInputs :
        /\ v # textStyle
        /\ InMainApp
        /\ textStyle' = v
        /\ call' = ""
        /\ UNCHANGED <<keyVars, pixels>>
        /\ UNCHANGED <<imageVars, promptInput, youtubeTitle, numberOfImages,
                       busyVars, editBtnDisabled, resultVars, errorToast,
                       runVars>>

SetNumber ==
    \E v \in NumberInputs :
        /\ v # numberOfImages
        /\ InMainApp
        /\ numberOfImages' = v
        /\ call' = ""
        /\ UNCHANGED <<keyVars, pixels>>
        /\ UNCHANGED <<imageVars, promptInput, youtubeTitle, textStyle,
                       busyVars, editBtnDisabled, resultVars, errorToast,
                       runVars>>

\* ----------------------------------------------------------- the image

\* processSelectedFile: the file is stored at once, its contents when the
\* FileReader fires.
ProcessSelectedFile(file) ==
    /\ file \in readers \/ Cardinality(readers) < MaxReaders
    /\ selectedImageFile' = file
    /\ readers' = readers \cup {file}
    /\ UNCHANGED <<selectedImage, errorToast>>

\* handleFileSelect, on the first file of the input (NoFile: none chosen).
HandleFileSelect ==
    \E file \in FileNames \cup {NoFile} :
        /\ InMainApp
        /\ IF file # NoFile /\ IsImageType(FileType(file))
           THEN ProcessSelectedFile(file)
           ELSE /\ errorToast' = "Please select a valid image file"
                /\ UNCHANGED imageVars
        /\ call' = ""
        /\ UNCHANGED <<keyVars, pixels>>
        /\ UNCHANGED <<formVars, busyVars, editBtnDisabled, resultVars,
                       runVars>>

DropInputs == {<<"a.png">>, <<"notes.txt", "b.jpg">>, <<"notes.txt">>}

\* handleFileDrop: the first image among the dropped files.
HandleFileDrop ==
    \E files \in DropInputs :
        /\ InMainApp
        /\ LET images == {k \in 1..Len(files) : IsImageType(FileType(files[k]))}
           IN  IF images # {}
               THEN ProcessSelectedFile(
                        files[CHOOSE k \in images : \A m \in images : k <= m])
               ELSE /\ errorToast' = "Please drop an image file"
                    /\ UNCHANGED imageVars
        /\ call' = ""
        /\ UNCHANGED <<keyVars, pixels>>
        /\ UNCHANGED <<formVars, busyVars, editBtnDisabled, resultVars,
                       runVars>>

\* reader.onload
ReaderLoad ==
    \E file \in readers :
        /\ readers' = readers \ {file}
        /\ selectedImage' = ReadAsDataURL(file)
        /\ editBtnDisabled' =
               ValidateForm(ReadAsDataURL(file), promptInput, isProcessing)
        /\ call' = ""
        /\ UNCHANGED <<keyVars, pixels>>
        /\ UNCHANGED <<selectedImageFile, formVars, busyVars, resultVars,
                       errorToast, runVars, events>>

\* reader.onerror
ReaderError ==
    \E file \in readers :
        /\ readers' = readers \ {file}
        /\ errorToast' = "Error reading image file"
        /\ call' = ""
        /\ UNCHANGED <<keyVars, pixels>>
        /\ UNCHANGED <<selectedImage, selectedImageFile, formVars, busyVars,
                       editBtnDisabled, resultVars, runVars, events>>

\* removeSelectedImage
RemoveSelectedImage ==
    /\ InMainApp
    /\ selectedImage' = <<>>
    /\ selectedImageFile' = NoFile
    /\ editBtnDisabled' = ValidateForm(<<>>, promptInput, isProcessing)
    /\ call' = ""
    /\ UNCHANGED <<keyVars, pixels>>
    /\ UNCHANGED <<readers, formVars, busyVars, resultVars, errorToast,
                   runVars>>

\* clearResults, from its button among the results: the results section
\* takes no click while it is hidden.
ClearResults ==
    /\ InMainApp
    /\ resultsShown
    /\ resultsGrid' = <<>>
    /\ resultsShown' = FALSE
    /\ req' = [req EXCEPT !.cleared = @ \/ isProcessing]
    /\ call' = ""
    /\ UNCHANGED <<keyVars, pixels>>
    /\ UNCHANGED <<imageVars, formVars, busyVars, editBtnDisabled,
                   errorToast, pc, run, outcome>>

\* resetForm: removeSelectedImage, the fields, clearResults, validateForm.
ResetForm ==
    /\ InMainApp
    /\ selectedImage' = <<>>
    /\ selectedImageFile' = NoFile
    /\ promptInput' = <<>>
    /\ youtubeTitle' = <<>>
    /\ textStyle' = <<>>
    /\ numberOfImages' = NumOne
    /\ resultsGrid' = <<>>
    /\ resultsShown' = FALSE
    /\ editBtnDisabled' = ValidateForm(<<>>, <<>>, isProcessing)
    /\ req' = [req EXCEPT !.cleared = @ \/ isProcessing]
    /\ call' = ""
    /\ UNCHANGED <<keyVars, pixels>>
    /\ UNCHANGED <<readers, busyVars, errorToast, pc, run, outcome>>

\* closeToast on the error toast, from its close button or the auto-hide
\* timer.
CloseErrorToast ==
    /\ errorToast # ""
    /\ errorToast' = ""
    /\ call' = ""
    /\ UNCHANGED <<keyVars, pixels>>
    /\ UNCHANGED <<imageVars, formVars, busyVars, editBtnDisabled,
                   resultVars, runVars, events>>

\* ------------------------------------------------------- the variant composer

TitleOpen == <<" ", "(", "i", "n", "c", "o", "r", "p", "o", "r", "a", "t", "i", "n", "g", " ", "Y", "o", "u", "T", "u", "b", "e", " ", "t", "i", "t", "l", "e", ":", " ", "\"">>

TitleClose == <<"\"", ")">>

StyleOpen == <<" ", "w", "i", "t", "h", " ">>

StyleClose == <<" ", "s", "t", "y", "l", "e", " ", "t", "e", "x", "t">>

KwColor == <<"c", "o", "l", "o", "r">>

KwBlue == <<"b", "l", "u", "e">>

KwRed == <<"r", "e", "d">>

KwBright == <<"b", "r", "i", "g", "h", "t">>

KwLight == <<"l", "i", "g", "h", "t">>

KwDark == <<"d", "a", "r", "k">>

KwShadow == <<"s", "h", "a", "d", "o", "w">>

KwBlur == <<"b", "l", "u", "r">>

KwSoft == <<"s", "o", "f", "t">>

\* What Math.random() can return, as far as a drawing call distinguishes it;
\* NoDraw marks a drawing call that does not ask for a random number.
NoDraw == "none"

Randoms == {"low", "high"}

\* One drawing call on the canvas: the function, the variation and the text
\* it is given, the branch it takes and the random number it draws.
Step(op, variation, text, detail, rand) ==
    [op |-> op, variation |-> variation, text |-> text, detail |-> detail,
     rand |-> rand]

\* addTextOverlay: the drawing function the style selects.  drawBalloonText
\* picks its colour and drawMatrixText places its noise with Math.random().
AddTextOverlay(text, style, variation, rnd) ==
    CASE style = Style3DMetallic ->
             Step("addTextOverlay", variation, text, "draw3DMetallicText",
                  NoDraw)
      [] style = StyleBalloon ->
             Step("addTextOverlay", variation, text, "drawBalloonText", rnd)
      [] style = StyleMatrix ->
             Step("addTextOverlay", variation, text, "drawMatrixText", rnd)
      [] OTHER ->
             Step("addTextOverlay", variation, text, "drawSimpleText", NoDraw)

\* The switch with the variation reduced modulo 4 first.
AddVariationEffectMod4(variation, rnd) ==
    CASE variation % 4 = 0 ->
             Step("addVariationEffect", variation, <<>>, "vignette", NoDraw)
      [] variation % 4 = 1 ->
             Step("addVariationEffect", variation, <<>>, "lightRays", NoDraw)
      [] variation % 4 = 2 ->
             Step("addVariationEffect", variation, <<>>, "sepia", NoDraw)
      [] OTHER ->
             Step("addVariationEffect", variation, <<>>, "randomTint", rnd)

\* The switch with a random number drawn in every case.
AddVariationEffectRandom(variation, rnd) ==
    CASE variation = 0 ->
             Step("addVariationEffect", variation, <<>>, "vignette", rnd)
      [] variation = 1 ->
             Step("addVariationEffect", variation, <<>>, "lightRays", rnd)
      [] variation = 2 ->
             Step("addVariationEffect", variation, <<>>, "sepia", rnd)
      [] OTHER ->
             Step("addVariationEffect", variation, <<>>, "randomTint", rnd)

\* addVariationEffect: the switch on the variation; its default case fills
\* with a random colour.
AddVariationEffect(variation, rnd) ==
    CASE variation = 0 ->
             Step("addVariationEffect", variation, <<>>, "vignette", NoDraw)
      [] variation = 1 ->
             Step("addVariationEffect", variation, <<>>, "lightRays", NoDraw)
      [] variation = 2 ->
             Step("addVariationEffect", variation, <<>>, "sepia", NoDraw)
      [] OTHER ->
             Step("addVariationEffect", variation, <<>>, "randomTint", rnd)

\* The case-sensitive test: the prompt is searched as it is.
KeywordCaseSensitive(prompt, keywords) ==
    \E k \in keywords : Includes(prompt, k)

\* prompt.toLowerCase().includes(k1) || prompt.toLowerCase().includes(k2) ...
Keyword(prompt, keywords) ==
    \E k \in keywords : Includes(ToLowerCase(prompt), k)

\* The drawing calls with the variation effect drawn first.
ApplyImageModificationsEffectFirst(prompt, variation, style, title, rnd) ==
    LET youtubeTitleT == Trim(title)
    IN  <<AddVariationEffect(variation, rnd[2])>>
            \o (IF Keyword(prompt, {KwColor, KwBlue, KwRed})
                THEN <<Step("applyColorEffect", variation, <<>>, "", NoDraw)>>
                ELSE <<>>)
            \o (IF youtubeTitleT # <<>>
                THEN <<AddTextOverlay(youtubeTitleT, style, variation, rnd[1])>>
                ELSE <<>>)

\* The drawing calls with the title tested as typed, before trimming.
ApplyImageModificationsUntrimmedTitle(prompt, variation, style, title, rnd) ==
    LET color == IF Keyword(prompt, {KwColor, KwBlue, KwRed})
                 THEN <<Step("applyColorEffect", variation, <<>>, "", NoDraw)>>
                 ELSE <<>>
        bright == IF Keyword(prompt, {KwBright, KwLight})
                  THEN <<Step("applyBrightnessEffect", variation, <<>>, "",
                              NoDraw)>>
                  ELSE <<>>
        dark == IF Keyword(prompt, {KwDark, KwShadow})
                THEN <<Step("applyDarknessEffect", variation, <<>>, "",
                            NoDraw)>>
                ELSE <<>>
        blur == IF Keyword(prompt, {KwBlur, KwSoft})
                THEN <<Step("applyBlurEffect", variation, <<>>, "", NoDraw)>>
                ELSE <<>>
        overlay == IF title # <<>>
                   THEN <<AddTextOverlay(Trim(title), style, variation,
                                         rnd[1])>>
                   ELSE <<>>
    IN  color \o bright \o dark \o blur \o overlay
            \o <<AddVariationEffect(variation, rnd[2])>>

\* applyImageModifications: the drawing calls, in order.  The style and the
\* title are the fields' values when it runs; rnd holds the random numbers
\* of the text overlay and of the variation effect.
ApplyImageModifications(prompt, variation, style, title, rnd) ==
    LET youtubeTitleT == Trim(title)
        color == IF Keyword(prompt, {KwColor, KwBlue, KwRed})
                 THEN <<Step("applyColorEffect", variation, <<>>, "", NoDraw)>>
                 ELSE <<>>
        bright == IF Keyword(prompt, {KwBright, KwLight})
                  THEN <<Step("applyBrightnessEffect", variation, <<>>, "",
                              NoDraw)>>
                  ELSE <<>>
        dark == IF Keyword(prompt, {KwDark, KwShadow})
                THEN <<Step("applyDarknessEffect", variation, <<>>, "",
                            NoDraw)>>
                ELSE <<>>
        blur == IF Keyword(prompt, {KwBlur, KwSoft})
                THEN <<Step("applyBlurEffect", variation, <<>>, "", NoDraw)>>
                ELSE <<>>
        overlay == IF youtubeTitleT # <<>>
                   THEN <<AddTextOverlay(youtubeTitleT, style, variation,
                                         rnd[1])>>
                   ELSE <<>>
    IN  color \o bright \o dark \o blur \o overlay
            \o <<AddVariationEffect(variation, rnd[2])>>

\* The canvas of variation r.i drawn over the canvas of the variation before.
CreateModifiedImageOnSharedCanvas(r, style, title, rnd) ==
    [src |-> r.imgSrc[2],
     steps |-> (IF r.results = <<>>
                THEN <<>>
                ELSE r.results[Len(r.results)].imageData.steps)
               \o ApplyImageModifications(r.enhancedPrompt, r.i, style, title,
                                          rnd)]

\* createModifiedImage's onload: a new canvas, the image drawn on it, the
\* modifications, and the canvas encoded by toDataURL.  The encoded image is
\* kept as what it was drawn from and the drawing calls made before encoding.
CreateModifiedImage(r, style, title, rnd) ==
    [src |-> r.imgSrc[2],
     steps |-> ApplyImageModifications(r.enhancedPrompt, r.i, style, title,
                                       rnd)]

\* The fallback drawn as the variant itself is drawn.
CreateFallbackModifiedImageInFull(r, rnd) ==
    [src |-> r.imgSrc[2],
     steps |-> ApplyImageModifications(r.enhancedPrompt, r.i, textStyle,
                                       youtubeTitle, rnd)]

\* createFallbackModifiedImage's onload: a new canvas, the image, the
\* variation effect alone, toDataURL.
CreateFallbackModifiedImage(r, rnd) ==
    [src |-> r.imgSrc[2], steps |-> <<AddVariationEffect(r.i, rnd[2])>>]

\* The entry tagged with the index itself.
ResultZeroBased(imageData, prompt, i) ==
    [imageData |-> imageData, prompt |-> prompt, variation |-> i]

\* One entry of generateModifiedImages' results.
Result(imageData, prompt, i) ==
    [imageData |-> imageData, prompt |-> prompt, variation |-> i + 1]

\* ------------------------------------------------------- the edit request

\* The finally block without its first statement.
FinallyStillProcessing ==
    /\ isProcessing' = TRUE
    /\ loadingOverlay' = FALSE
    /\ editBtnDisabled' = ValidateForm(selectedImage, promptInput, TRUE)
    /\ pc' = "idle"
    /\ run' = NoRun
    /\ req' = [NoReq EXCEPT !.cleared = req.cleared]

\* processImageEdit's finally block.
Finally ==
    /\ isProcessing' = FALSE
    /\ loadingOverlay' = FALSE
    /\ editBtnDisabled' = ValidateForm(selectedImage, promptInput, FALSE)
    /\ pc' = "idle"
    /\ run' = NoRun
    /\ req' = [NoReq EXCEPT !.cleared = req.cleared]

\* The same, with the toast forgotten.
RequestFailsQuietly(cause) ==
    /\ outcome' = cause
    /\ Finally
    /\ UNCHANGED <<resultVars, errorToast>>

\* An error reaches processImageEdit's catch block.
RequestFails(cause) ==
    /\ errorToast' = "Failed to edit image. Please try again."
    /\ outcome' = cause
    /\ Finally
    /\ UNCHANGED resultVars

\* displayResults: each item shows result.variation || index + 1.
DisplayResults(results) ==
    /\ resultsGrid' = [k \in 1..Len(results) |->
                          [imageData |-> results[k].imageData,
                           variation |-> IF results[k].variation # 0
                                         THEN results[k].variation
                                         ELSE k]]
    /\ resultsShown' = TRUE

\* The results dropped when they were cleared or the form was reset while
\* the request was in flight.
RequestSucceedsUnlessCleared(results) ==
    /\ IF req.cleared THEN UNCHANGED resultVars ELSE DisplayResults(results)
    /\ outcome' = "results"
    /\ Finally
    /\ UNCHANGED errorToast

\* processImageEdit after callGeminiAPI has returned: displayResults, the
\* success toast, the finally block.
RequestSucceeds(results) ==
    /\ DisplayResults(results)
    /\ outcome' = "results"
    /\ Finally
    /\ UNCHANGED errorToast

\* An exception escapes an onload callback: the promise is never settled and
\* the window's error listener shows a toast.
CallbackThrows ==
    /\ pc' = "threw"
    /\ errorToast' = "An unexpected error occurred. Please refresh the page."
    /\ UNCHANGED <<busyVars, editBtnDisabled, resultVars, run, req, outcome>>

\* The image decoded by the first composition and kept for the later ones.
AwaitImageDecodedOnce(r, where) ==
    /\ pc' = where
    /\ run' = [r EXCEPT !.imgSrc = <<FileType(selectedImageFile),
                                     r.imageBase64>>,
                        !.decodes = 1]
    /\ UNCHANGED <<busyVars, editBtnDisabled, resultVars, errorToast, req,
                   outcome>>

\* new Image() with src "data:<selectedImageFile.type>;base64,<imageBase64>":
\* the browser decodes the data again for every Image (run.decodes counts
\* them).  Reading .type of null throws in the promise's executor.
AwaitImage(r, where) ==
    /\ pc' = where
    /\ run' = [r EXCEPT !.imgSrc = <<FileType(selectedImageFile),
                                     r.imageBase64>>,
                        !.decodes = @ + 1]
    /\ UNCHANGED <<busyVars, editBtnDisabled, resultVars, errorToast, req,
                   outcome>>

\* The loop with the bound off by one: i <= count.
GenerateOffByOne(r, k, results) ==
    IF k <= r.count
    THEN IF selectedImageFile = NoFile
         THEN RequestFails("fileRemoved")
         ELSE AwaitImage([r EXCEPT !.i = k, !.results = results], "load")
    ELSE RequestSucceeds(results)

\* The loop starting the image of iteration k before the result of the
\* iteration before it is appended.
GenerateAhead(r, k, results) ==
    IF k < r.count
    THEN IF selectedImageFile = NoFile
         THEN RequestFails("fileRemoved")
         ELSE AwaitImage([r EXCEPT !.i = k], "load")
    ELSE RequestSucceeds(results)

\* generateModifiedImages' loop from iteration k with the results so far.
\* With no file, createModifiedImage and then createFallbackModifiedImage
\* both throw, and the second error leaves the loop.
Generate(r, k, results) ==
    IF k < r.count
    THEN IF selectedImageFile = NoFile
         THEN RequestFails("fileRemoved")
         ELSE AwaitImage([r EXCEPT !.i = k, !.results = results], "load")
    ELSE RequestSucceeds(results)

\* processImageEdit up to the fetch of callGeminiAPI.
FullPrompt ==
    LET basePrompt == Trim(promptInput)
        ytTitle == Trim(youtubeTitle)
        withTitle == IF ytTitle # <<>>
                     THEN basePrompt \o TitleOpen \o ytTitle \o TitleClose
                     ELSE basePrompt
    IN  IF textStyle # <<>>
        THEN withTitle \o StyleOpen \o textStyle \o StyleClose
        ELSE withTitle

\* The guard without its isProcessing test.
RejectsIgnoringBusy == selectedImage = <<>> \/ Trim(promptInput) = <<>>

\* The guard testing the instruction untrimmed.
RejectsUntrimmed ==
    isProcessing \/ selectedImage = <<>> \/ promptInput = <<>>

\* The guard of processImageEdit: the call returns at once.
Rejects == isProcessing \/ selectedImage = <<>> \/ Trim(promptInput) = <<>>

ProcessImageEdit ==
    /\ InMainApp
    /\ UNCHANGED <<keyVars, pixels, imageVars, formVars>>
    /\ IF Rejects
       THEN /\ call' = "returned"
            /\ UNCHANGED <<busyVars, editBtnDisabled, resultVars, errorToast,
                           runVars>>
       ELSE IF selectedImageFile = NoFile
       THEN /\ RequestFails("noFile")
            /\ call' = "started"
       ELSE /\ isProcessing' = TRUE
            /\ loadingOverlay' = TRUE
            /\ editBtnDisabled' = TRUE
            /\ pc' = "fetch"
            /\ run' = [NoRun EXCEPT
                          !.fullPrompt = FullPrompt,
                          !.imageBase64 = selectedImage[2],
                          !.count = OrOne(ParseInt(numberOfImages))]
            /\ req' = [prompt |-> promptInput, title |-> youtubeTitle,
                       style |-> textStyle,
                       number |-> numberOfImages,
                       type |-> FileType(selectedImageFile),
                       data |-> selectedImage[2], cleared |-> FALSE]
            /\ outcome' = "none"
            /\ call' = "started"
            /\ UNCHANGED <<resultVars, errorToast>>

\* The answer taken as it comes, with no prompt in its place.
EnhancedPromptNoFallback(text, prompt) == text

\* analysisData.candidates?.[0]?.content?.parts?.[0]?.text || prompt: a
\* missing text and the empty text are falsy.
EnhancedPrompt(text, prompt) == IF text # <<>> THEN text ELSE prompt

\* The fetch settles: rejected, answered with a status that is not ok, or
\* answered with a body that may carry a text.
FetchSettles ==
    /\ pc = "fetch"
    /\ UNCHANGED <<imageVars, formVars, events>>
    /\ call' = ""
    /\ UNCHANGED <<keyVars, pixels>>
    /\ \E response \in {"rejected", "notOk", "ok"} :
          IF response = "ok"
          THEN \E text \in ApiTexts :
                  Generate([run EXCEPT !.enhancedPrompt =
                               EnhancedPrompt(text, run.fullPrompt)],
                           0, <<>>)
          ELSE RequestFails("analysisFailed")

\* createModifiedImage's img fires load: the canvas is drawn and encoded,
\* unless a drawing call throws.
ImageLoads ==
    /\ pc = "load"
    /\ UNCHANGED <<imageVars, formVars, events>>
    /\ call' = ""
    /\ UNCHANGED <<keyVars, pixels>>
    /\ \E throws \in BOOLEAN, rnd \in Randoms \X Randoms :
          IF throws
          THEN CallbackThrows
          ELSE Generate(run, run.i + 1,
                   Append(run.results,
                       Result(CreateModifiedImage(run, textStyle,
                                                  youtubeTitle, rnd),
                              run.enhancedPrompt, run.i)))

\* createModifiedImage's img fires error: the promise is rejected and the
\* catch block of the loop starts createFallbackModifiedImage.
ImageFails ==
    /\ pc = "load"
    /\ run.errors < MaxImageErrors
    /\ UNCHANGED <<imageVars, formVars, events>>
    /\ call' = ""
    /\ UNCHANGED <<keyVars, pixels>>
    /\ IF selectedImageFile = NoFile
       THEN RequestFails("fileRemoved")
       ELSE AwaitImage([run EXCEPT !.errors = @ + 1], "fallbackLoad")

\* createFallbackModifiedImage's img fires load.
FallbackLoads ==
    /\ pc = "fallbackLoad"
    /\ UNCHANGED <<imageVars, formVars, events>>
    /\ call' = ""
    /\ UNCHANGED <<keyVars, pixels>>
    /\ \E throws \in BOOLEAN, rnd \in Randoms \X Randoms :
          IF throws
          THEN CallbackThrows
          ELSE Generate(run, run.i + 1,
                   Append(run.results,
                       Result(CreateFallbackModifiedImage(run, rnd),
                              run.enhancedPrompt, run.i)))

\* createFallbackModifiedImage's img fires error: it has no onerror, so the
\* promise is never settled.
FallbackFails ==
    /\ pc = "fallbackLoad"
    /\ pc' = "unhandled"
    /\ call' = ""
    /\ UNCHANGED <<keyVars, pixels>>
    /\ UNCHANGED <<imageVars, formVars, busyVars, editBtnDisabled,
                   resultVars, errorToast, run, req, outcome, events>>

\* ------------------------------------------------------------ the API key

\* The prefix test passing for every key.
StartsWithAnything(s, t) == TRUE

\* String.prototype.startsWith
StartsWith(s, t) == Len(s) >= Len(t) /\ SubSeq(s, 1, Len(t)) = t

\* testApiKey with its length test left out.
TestApiKeyAcceptsAll(key) == TRUE

\* testApiKey resolves: the key is not empty and has MinKeyLength characters
\* or more.  Otherwise it throws before its timer is started.
TestApiKey(key) == key # <<>> /\ Len(key) >= MinKeyLength

\* The 'input' of apiKeyInput, which has no listener.
TypeApiKey ==
    \E v \in KeyInputs :
        /\ v # apiKeyInput
        /\ InApiConfig
        /\ apiKeyInput' = v
        /\ call' = ""
        /\ UNCHANGED <<apiKey, storedKey, apiConfigShown, mainAppShown, saves,
                       imageVars, formVars, busyVars, editBtnDisabled,
                       resultVars, errorToast, runVars, pixels>>

\* saveApiKey up to its await, from the button's click or the Enter key.  A
\* key rejected for its format only changes the status line; one that
\* testApiKey throws on reaches the catch and the finally blocks at once.
SaveApiKey ==
    /\ InApiConfig
    /\ UNCHANGED <<apiKey, storedKey, apiKeyInput, apiConfigShown,
                   mainAppShown, imageVars, formVars, isProcessing,
                   editBtnDisabled, resultVars, runVars, pixels>>
    /\ LET key == Trim(apiKeyInput)
       IN  IF key = <<>> \/ ~StartsWith(key, KeyPrefix)
           THEN /\ call' = "keyRejected"
                /\ UNCHANGED <<saves, loadingOverlay, errorToast>>
           ELSE IF ~TestApiKey(key)
           THEN /\ call' = "keyFailed"
                /\ errorToast' = "Invalid API key. Please check and try again."
                /\ loadingOverlay' = FALSE
                /\ UNCHANGED saves
           ELSE /\ call' = "keyPending"
                /\ saves' = Append(saves, key)
                /\ loadingOverlay' = TRUE
                /\ UNCHANGED errorToast

\* The timer of the oldest pending testApiKey fires: saveApiKey stores the
\* key it was called with and shows the main application.
TestApiKeySettles ==
    /\ saves # <<>>
    /\ storedKey' = Head(saves)
    /\ apiKey' = Head(saves)
    /\ apiConfigShown' = FALSE
    /\ mainAppShown' = TRUE
    /\ loadingOverlay' = FALSE
    /\ saves' = Tail(saves)
    /\ call' = ""
    /\ UNCHANGED <<apiKeyInput, imageVars, formVars, isProcessing,
                   editBtnDisabled, resultVars, errorToast, runVars, events,
                   pixels>>

Next ==
    \/ TypeApiKey
    \/ SaveApiKey
    \/ TestApiKeySettles
    \/ TypePrompt
    \/ TypeTitle
    \/ SelectStyle
    \/ SetNumber
    \/ HandleFileSelect
    \/ HandleFileDrop
    \/ ReaderLoad
    \/ ReaderError
    \/ RemoveSelectedImage
    \/ ClearResults
    \/ ResetForm
    \/ CloseErrorToast
    \/ ProcessImageEdit
    \/ FetchSettles
    \/ ImageLoads
    \/ ImageFails
    \/ FallbackLoads
    \/ FallbackFails

Spec == Init /\ [][Next]_vars

\* ------------------------------------------------- the composer on its own

\* A request whose analysis has just answered with one of ComposerPrompts and
\* which awaits the image of its first variant: what processImageEdit and
\* the 'ok' continuation of the fetch leave behind.  Either nothing is
\* displayed yet, or the one variant of an earlier request on the same form
\* which got the same answer.
ComposerInit ==
    /\ storedKey = KeyValid
    /\ apiKey = KeyValid
    /\ apiKeyInput = KeyValid
    /\ apiConfigShown = FALSE
    /\ mainAppShown = TRUE
    /\ saves = <<>>
    /\ selectedImageFile \in {f \in FileNames : IsImageType(FileType(f))}
    /\ selectedImage = ReadAsDataURL(selectedImageFile)
    /\ readers = {}
    /\ promptInput = PromptRed
    /\ youtubeTitle \in ComposerTitles
    /\ textStyle \in ComposerStyles
    /\ numberOfImages \in {NumOne, NumTwo, NumFive}
    /\ isProcessing = TRUE
    /\ loadingOverlay = TRUE
    /\ editBtnDisabled = TRUE
    /\ errorToast = ""
    /\ pc = "load"
    /\ \E text \in ComposerPrompts :
           /\ run = [fullPrompt |-> FullPrompt,
                     imageBase64 |-> selectedImage[2],
                     count |-> OrOne(ParseInt(numberOfImages)),
                     enhancedPrompt |-> text,
                     i |-> 0,
                     results |-> <<>>,
                     imgSrc |-> <<FileType(selectedImageFile),
                                  selectedImage[2]>>,
                     errors |-> 0,
                     decodes |-> 1]
           /\ resultsGrid \in
                  {<<>>} \cup
                  {<<[imageData |-> CreateModifiedImage(run, textStyle,
                                                        youtubeTitle, rnd),
                      variation |-> 1]>> : rnd \in Randoms \X Randoms}
    /\ resultsShown = (resultsGrid # <<>>)
    /\ req = [prompt |-> promptInput, title |-> youtubeTitle,
              style |-> textStyle,
              number |-> numberOfImages,
              type |-> FileType(selectedImageFile),
              data |-> selectedImage[2], cleared |-> FALSE]
    /\ events = MaxEvents
    /\ outcome = "none"
    /\ call = ""
    /\ pixels = NoPixels

\* The image loads of the request, with no user event in between.
ComposerNext ==
    \/ ImageLoads
    \/ ImageFails
    \/ FallbackLoads
    \/ FallbackFails

ComposerSpec == ComposerInit /\ [][ComposerNext]_vars

\* ------------------------------------------------- the pixel loops

\* At most this many pixels on a canvas.
MaxPixels == 2

\* The pixels a source image can hold, as <<R, G, B, A>>.
PixelInputs ==
    {<<200, 100, 50, 255>>, <<255, 255, 255, 255>>, <<0, 0, 0, 0>>,
     <<213, 212, 255, 128>>, <<55, 45, 101, 1>>, <<5, 15, 232, 200>>,
     <<0, 50, 25, 255>>}

\* ctx.getImageData after drawImage: the channels of the pixels, in order.
RECURSIVE CanvasesOf(_)
CanvasesOf(n) ==
    IF n = 0
    THEN {<<>>}
    ELSE {px \o rest : px \in PixelInputs, rest \in CanvasesOf(n - 1)}

Canvases == UNION {CanvasesOf(n) : n \in 1..MaxPixels}

\* Math.min(255, x) for x = num / den.
Min255(num, den) == IF num > 255 * den THEN 255 * den ELSE num

\* The store of the number num / den into an element of a Uint8ClampedArray:
\* rounded to the nearest integer, a half to the even one, and clamped to
\* 0..255.  nudge is the side of the half on which the double lies when
\* num / den is a half.
ToUint8Clamp(num, den, nudge) ==
    LET floor == num \div den
        twice == 2 * (num % den)
    IN  IF floor >= 255 THEN 255
        ELSE IF twice > den \/ (twice = den /\ nudge > 0) THEN floor + 1
        ELSE IF twice < den \/ (twice = den /\ nudge < 0) THEN floor
        ELSE IF floor % 2 = 0 THEN floor ELSE floor + 1

\* The factors of applyColorEffect's effects array, in tenths.
TintEffects ==
    <<[r |-> 12, g |-> 8, b |-> 8], [r |-> 8, g |-> 8, b |-> 12],
      [r |-> 8, g |-> 12, b |-> 8], [r |-> 11, g |-> 11, b |-> 7]>>

\* The products v * 1.1 and v * 0.7 whose exact value is a half and whose
\* IEEE 754 double is not: <<factor in tenths, v>>.
ProductAboveHalf ==
    {<<11, 25>>, <<11, 45>>, <<11, 55>>, <<11, 85>>, <<11, 95>>, <<11, 105>>,
     <<11, 115>>, <<11, 165>>, <<11, 175>>, <<11, 185>>, <<11, 195>>,
     <<11, 205>>, <<11, 215>>, <<11, 225>>}

ProductBelowHalf == {<<7, 45>>, <<7, 85>>, <<7, 165>>, <<7, 175>>}

Nudge(factor, v) ==
    IF <<factor, v>> \in ProductAboveHalf THEN 1
    ELSE IF <<factor, v>> \in ProductBelowHalf THEN 0 - 1
    ELSE 0

\* The loop storing into a Uint8Array, without Math.min: the product wraps.
ApplyColorEffectWrapping(data, variation) ==
    LET effect == TintEffects[(variation % Len(TintEffects)) + 1]
        channel(v, f) == ((v * f) \div 10) % 256
    IN  [k \in 1..Len(data) |->
            CASE k % 4 = 1 -> channel(data[k], effect.r)
              [] k % 4 = 2 -> channel(data[k], effect.g)
              [] k % 4 = 3 -> channel(data[k], effect.b)
              [] OTHER -> data[k]]

\* applyColorEffect's loop: data[i] = Math.min(255, data[i] * effect.r) and
\* the same for i + 1 and i + 2; data[i + 3] is not touched.
ApplyColorEffect(data, variation) ==
    LET effect == TintEffects[(variation % Len(TintEffects)) + 1]
        channel(v, f) == ToUint8Clamp(Min255(v * f, 10), 10, Nudge(f, v))
    IN  [k \in 1..Len(data) |->
            CASE k % 4 = 1 -> channel(data[k], effect.r)
              [] k % 4 = 2 -> channel(data[k], effect.g)
              [] k % 4 = 3 -> channel(data[k], effect.b)
              [] OTHER -> data[k]]

\* The coefficients of the sepia case, in thousandths.
SepiaMatrix ==
    <<<<393, 769, 189>>, <<349, 686, 168>>, <<272, 534, 131>>>>

\* What one channel of the sepia case can store.  When the exact sum is a
\* half, the double sum of the three products lies on it or next to it, on
\* a side that depends on the rounding of each product: both neighbours are
\* kept.
SepiaChannel(r, g, b, c) ==
    LET x == Min255(c[1] * r + c[2] * g + c[3] * b, 1000)
    IN  IF 2 * (x % 1000) = 1000
        THEN {x \div 1000, (x \div 1000) + 1}
        ELSE {ToUint8Clamp(x, 1000, 0)}

\* The sepia loop with each channel read when it is needed, after the
\* stores before it.
RECURSIVE SepiaInPlace(_)
SepiaInPlace(data) ==
    IF data = <<>>
    THEN {<<>>}
    ELSE {<<r2, g2, b2, data[4]>> \o rest :
              r2 \in SepiaChannel(data[1], data[2], data[3], SepiaMatrix[1]),
              g2 \in SepiaChannel(
                         ToUint8Clamp(Min255(393 * data[1] + 769 * data[2]
                                                 + 189 * data[3], 1000),
                                      1000, 0),
                         data[2], data[3], SepiaMatrix[2]),
              b2 \in SepiaChannel(data[1], data[2], data[3], SepiaMatrix[3]),
              rest \in SepiaInPlace(SubSeq(data, 5, Len(data)))}

\* Case 2 of addVariationEffect: r, g and b are read first, then the three
\* channels are stored; the alpha is not touched.  The outcomes the stores
\* can have.
RECURSIVE Sepia(_)
Sepia(data) ==
    IF data = <<>>
    THEN {<<>>}
    ELSE {<<r2, g2, b2, data[4]>> \o rest :
              r2 \in SepiaChannel(data[1], data[2], data[3], SepiaMatrix[1]),
              g2 \in SepiaChannel(data[1], data[2], data[3], SepiaMatrix[2]),
              b2 \in SepiaChannel(data[1], data[2], data[3], SepiaMatrix[3]),
              rest \in Sepia(SubSeq(data, 5, Len(data)))}

\* A request for five variants with no title and no style, whose analysis
\* answered "COLOR pop" or "sharpen", has reached its variant i: the image
\* has loaded, and the callback has drawn it on a new canvas.
PixelInit ==
    /\ storedKey = KeyValid
    /\ apiKey = KeyValid
    /\ apiKeyInput = KeyValid
    /\ apiConfigShown = FALSE
    /\ mainAppShown = TRUE
    /\ saves = <<>>
    /\ selectedImageFile = "a.png"
    /\ selectedImage = ReadAsDataURL(selectedImageFile)
    /\ readers = {}
    /\ promptInput = PromptRed
    /\ youtubeTitle = <<>>
    /\ textStyle = <<>>
    /\ numberOfImages = NumFive
    /\ isProcessing = TRUE
    /\ loadingOverlay = TRUE
    /\ editBtnDisabled = TRUE
    /\ resultsGrid = <<>>
    /\ resultsShown = FALSE
    /\ errorToast = ""
    /\ pc = "load"
    /\ \E text \in {PromptColor, PromptSharpen} :
       \E i \in 0..(OrOne(ParseInt(numberOfImages)) - 1) :
           LET first == [fullPrompt |-> FullPrompt,
                         imageBase64 |-> selectedImage[2],
                         count |-> OrOne(ParseInt(numberOfImages)),
                         enhancedPrompt |-> text,
                         i |-> 0,
                         results |-> <<>>,
                         imgSrc |-> <<FileType(selectedImageFile),
                                      selectedImage[2]>>,
                         errors |-> 0,
                         decodes |-> 1]
           IN  run = [first EXCEPT
                         !.i = i,
                         !.decodes = i + 1,
                         !.results =
                             [k \in 1..i |->
                                 Result(CreateModifiedImage(
                                            [first EXCEPT !.i = k - 1],
                                            textStyle, youtubeTitle,
                                            <<"low", "low">>),
                                        text, k - 1)]]
    /\ req = [prompt |-> promptInput, title |-> youtubeTitle,
              style |-> textStyle,
              number |-> numberOfImages,
              type |-> FileType(selectedImageFile),
              data |-> selectedImage[2], cleared |-> FALSE]
    /\ events = MaxEvents
    /\ outcome = "none"
    /\ call = ""
    /\ \E source \in Canvases :
           pixels = [source |-> source, data |-> source, op |-> "drawImage"]

\* applyImageModifications calls applyColorEffect, the prompt having one of
\* its keywords.
ApplyColorEffectOnCanvas ==
    /\ pixels.op = "drawImage"
    /\ Keyword(run.enhancedPrompt, {KwColor, KwBlue, KwRed})
    /\ pixels' = [pixels EXCEPT !.data = ApplyColorEffect(@, run.i),
                                !.op = "applyColorEffect"]
    /\ UNCHANGED pageVars

\* addVariationEffect reaches its case 2, after applyColorEffect if the
\* prompt has called for it.
SepiaOnCanvas ==
    /\ run.i = 2
    /\ pixels.op = IF Keyword(run.enhancedPrompt, {KwColor, KwBlue, KwRed})
                   THEN "applyColorEffect"
                   ELSE "drawImage"
    /\ \E out \in Sepia(pixels.data) :
           pixels' = [pixels EXCEPT !.data = out, !.op = "sepia"]
    /\ UNCHANGED pageVars

PixelNext ==
    \/ ApplyColorEffectOnCanvas
    \/ SepiaOnCanvas

PixelSpec == PixelInit /\ [][PixelNext]_vars

\* The continuations of a request in flight: each is the firing of the event
\* the request is awaiting.
RequestStep ==
    \/ FetchSettles
    \/ ImageLoads
    \/ ImageFails
    \/ FallbackLoads
    \/ FallbackFails

FailedToEdit == "Failed to edit image. Please try again."

\* A step in which createModifiedImage's image loads and its canvas is
\* encoded, and the image that step adds to the results.
Composes ==
    /\ pc = "load"
    /\ \/ pc' = "load" /\ run'.i = run.i + 1
       \/ pc' = "idle" /\ outcome' = "results"

Composed ==
    IF pc' = "idle"
    THEN resultsGrid'[Len(resultsGrid')].imageData
    ELSE run'.results[Len(run'.results)].imageData

\* ----------------------------------------------------------------- claims

\* C1: a request whose variant count N is in 1..4 and that ends with results
\* displays exactly N of them, and the one at position k (counted from 0)
\* carries variation k + 1 and was drawn for variant index k.
C1_ExactlyNResultsInOrder ==
    [][(isProcessing /\ outcome' = "results" /\ run.count \in 1..4) =>
          /\ Len(resultsGrid') = run.count
          /\ \A k \in 1..Len(resultsGrid') :
                 /\ resultsGrid'[k].variation = k
                 /\ LET steps == resultsGrid'[k].imageData.steps
                    IN  steps[Len(steps)].variation = k - 1]_vars

\* A request for two variants has ended with both displayed, the first of
\* them the fallback.
C1_Witness ==
    /\ outcome = "results"
    /\ Len(resultsGrid) = 2
    /\ Len(resultsGrid[1].imageData.steps) = 1
    /\ Len(resultsGrid[2].imageData.steps) > 1

\* C2: a drawing step that throws while a variant is composed never stalls
\* the batch: the request can still take its next step.
C2_RenderErrorNeverStalls == pc = "threw" => ENABLED RequestStep

\* C3 as stated: no request ends in the error outcome because the analysis
\* call failed.
C3_AnalysisFailureRecovered == outcome # "analysisFailed"

\* C3 amended: when the analysis call fails the request ends in the error
\* outcome: the "Failed to edit image" toast is shown, no variant has been
\* composed, the displayed results stay as they were and isProcessing and the
\* loading overlay are reset.
C3_AnalysisFailureEndsRequest ==
    [][(pc = "fetch" /\ outcome' = "analysisFailed") =>
          /\ errorToast' = FailedToEdit
          /\ run.results = <<>>
          /\ UNCHANGED resultVars
          /\ ~isProcessing'
          /\ ~loadingOverlay'
          /\ pc' = "idle"]_vars

\* The analysis call of a request has failed and the request has ended.
C3_Witness ==
    /\ outcome = "analysisFailed"
    /\ errorToast = FailedToEdit
    /\ ~isProcessing

\* C4: once an image load of a request has fired error the request is over:
\* no request is in flight with a failed decode behind it.
C4_DecodeFailureAborts == isProcessing => run.errors = 0

\* C5: a request in flight is never left pending for ever: the event it is
\* awaiting can still fire.
C5_RequestNeverPendingForever == isProcessing => ENABLED RequestStep

\* C6: while a request is in flight no second one starts, and a call of
\* processImageEdit returns leaving everything but the history unchanged.
C6_OneRequestInFlight ==
    [][isProcessing =>
          /\ call' # "started"
          /\ call' = "returned" =>
                 UNCHANGED <<imageVars, formVars, busyVars, editBtnDisabled,
                             resultVars, errorToast, runVars>>]_vars

\* processImageEdit was called while a request was awaiting an image.
C6_Witness == isProcessing /\ call = "returned" /\ pc = "load"

\* C7 as stated: after processImageEdit has returned at its guard for want
\* of an image or an instruction, an error is shown.
C7_InputErrorSurfaced ==
    (call = "returned" /\ ~isProcessing) => errorToast # ""

\* C7 amended: with no image, or an instruction that is empty after trimming,
\* processImageEdit never starts a request, and its call changes nothing: no
\* toast, no analysis call, no variant, isProcessing still false.
C7_InvalidInputIgnoredSilently ==
    [][(~isProcessing /\ (selectedImage = <<>> \/ Trim(promptInput) = <<>>)) =>
          /\ call' # "started"
          /\ call' = "returned" =>
                 UNCHANGED <<imageVars, formVars, busyVars, editBtnDisabled,
                             resultVars, errorToast, runVars>>]_vars

\* processImageEdit was called with an image and a blank instruction, and no
\* toast is shown.
C7_Witness ==
    /\ call = "returned"
    /\ ~isProcessing
    /\ selectedImage # <<>>
    /\ promptInput = <<" ">>
    /\ errorToast = ""
    /\ pc = "idle"

\* C8: every variant a request composes is drawn with the title and the
\* style the form held when the request started, and the variant count of
\* the request is the one the form held then.
C8_RequestFixedAtSubmit ==
    [][/\ isProcessing' => run'.count = OrOne(ParseInt(req'.number))
       /\ Composes =>
              \E rnd \in Randoms \X Randoms :
                  Composed.steps =
                      ApplyImageModifications(run.enhancedPrompt, run.i,
                                              req.style, req.title, rnd)]_vars

\* C9: every image a request loads is built from the data and the MIME type
\* selected when the request started, and no request fails because the image
\* was removed meanwhile.
C9_SourceReadOnly ==
    /\ pc \in {"load", "fallbackLoad"} => run.imgSrc = <<req.type, req.data>>
    /\ outcome # "fileRemoved"

\* C10: the variant count of a request is between 1 and 4.
C10_VariantCountInRange == isProcessing => run.count \in 1..4

\* The drawing functions called for an image, in order.
Ops(imageData) == [k \in 1..Len(imageData.steps) |-> imageData.steps[k].op]

\* The word occurs in the prompt at some position, each letter in either
\* case.
ContainsIgnoringCase(prompt, word) ==
    \E k \in 1..Len(prompt) :
        /\ k + Len(word) - 1 <= Len(prompt)
        /\ \A j \in 1..Len(word) :
               \/ prompt[k + j - 1] = word[j]
               \/ \E u \in 1..Len(Lower) :
                      Lower[u] = word[j] /\ Upper[u] = prompt[k + j - 1]

\* C11: createModifiedImage applies the tint exactly when the enhanced prompt
\* contains color, blue or red in any case, the brightness wash exactly when
\* it contains bright or light, the darkness wash for dark or shadow and the
\* blur for blur or soft, each decided on its own; with no trigger in the
\* prompt only the text overlay, if any, and the variation effect are drawn.
C11_KeywordTriggers ==
    [][Composes =>
          LET ops == Ops(Composed)
              has(op) == \E k \in 1..Len(ops) : ops[k] = op
              hit(words) ==
                  \E w \in words : ContainsIgnoringCase(run.enhancedPrompt, w)
          IN  /\ has("applyColorEffect") <=> hit({KwColor, KwBlue, KwRed})
              /\ has("applyBrightnessEffect") <=> hit({KwBright, KwLight})
              /\ has("applyDarknessEffect") <=> hit({KwDark, KwShadow})
              /\ has("applyBlurEffect") <=> hit({KwBlur, KwSoft})
              /\ has("addVariationEffect")
              /\ ~hit({KwColor, KwBlue, KwRed, KwBright, KwLight, KwDark,
                       KwShadow, KwBlur, KwSoft}) =>
                     \A k \in 1..Len(ops) :
                         ops[k] \in {"addTextOverlay", "addVariationEffect"}]_vars

\* "make it bright and blue" has drawn the tint and the brightness wash, and
\* nothing else before the variation effect.
C11_Witness ==
    /\ Len(run.results) = 1
    /\ run.enhancedPrompt = PromptBrightBlue
    /\ Ops(run.results[1].imageData) =
           <<"applyColorEffect", "applyBrightnessEffect",
             "addVariationEffect">>

\* The encoded images a state holds: those displayed, from the last request
\* that ended with results, and those of the request in flight.
Images ==
    {resultsGrid[k].imageData : k \in 1..Len(resultsGrid)}
        \cup {run.results[k].imageData : k \in 1..Len(run.results)}

\* The variant index an image was composed for, and whether a text overlay
\* of one of the given kinds was drawn on it.
IndexOf(imageData) == imageData.steps[Len(imageData.steps)].variation

HasText(imageData, kinds) ==
    \E k \in 1..Len(imageData.steps) : imageData.steps[k].detail \in kinds

Acceptable(key) ==
    /\ Len(key) >= 30
    /\ key[1] = "A" /\ key[2] = "I" /\ key[3] = "z" /\ key[4] = "a"

\* C13: apiKey, the stored key and the display of the main application
\* change only when a saveApiKey call completes whose key, the trimmed input
\* of the call, is acceptable, and then all three are set; a call goes on to
\* await testApiKey exactly when the trimmed input is acceptable, and a call
\* that rejects its key leaves apiKey and the stored key as they were and
\* the main application hidden.
C13_SavesOnlyAcceptableKeys ==
    [][/\ (storedKey' # storedKey \/ apiKey' # apiKey
             \/ mainAppShown' # mainAppShown) =>
              /\ saves # <<>>
              /\ Acceptable(Head(saves))
              /\ storedKey' = Head(saves)
              /\ apiKey' = Head(saves)
              /\ mainAppShown'
       /\ call' = "keyPending" =>
              /\ Acceptable(Trim(apiKeyInput))
              /\ saves' = Append(saves, Trim(apiKeyInput))
       /\ call' \in {"keyRejected", "keyFailed"} =>
              /\ ~Acceptable(Trim(apiKeyInput))
              /\ UNCHANGED <<apiKey, storedKey, saves>>
              /\ ~mainAppShown'
       /\ call' \in {"keyRejected", "keyFailed", "keyPending"} =>
              UNCHANGED <<apiKey, storedKey, mainAppShown>>]_vars

\* A key typed between spaces has been saved trimmed, and the main
\* application is shown.
C13_Witness ==
    /\ apiKeyInput = KeyPadded
    /\ storedKey = Key30
    /\ apiKey = Key30
    /\ mainAppShown

\* C14: whenever a key is stored and the main application is shown, the way
\* to remove or replace the key is open: the configuration section can be
\* used, or a saveApiKey call is still under way.
C14_KeyCanBeChanged ==
    (storedKey # NoKey /\ mainAppShown) => (apiConfigShown \/ saves # <<>>)

\* What holds instead: once a key is stored, the main application is shown
\* and no saveApiKey call is under way, no step changes the stored key or
\* brings the configuration section back.
C14_StoredKeyIsFinal ==
    [][(storedKey # NoKey /\ mainAppShown /\ saves = <<>>) =>
          UNCHANGED <<storedKey, apiKey, mainAppShown, apiConfigShown,
                      saves>>]_vars

\* C15 as stated: the result at position k counted from 0 carries the tag k.
C15_TagIsZeroBasedPosition ==
    \A k \in 1..Len(run.results) : run.results[k].variation = k - 1

\* C15 amended: the result at position k counted from 0 carries the tag
\* k + 1, so the tags of a request with N variants lie in 1..N and are
\* pairwise distinct; the items displayed carry the same tags.
C15_TagIsPositionPlusOne ==
    /\ \A k \in 1..Len(run.results) :
           /\ run.results[k].variation = (k - 1) + 1
           /\ run.results[k].variation \in 1..run.count
    /\ \A j, k \in 1..Len(run.results) :
           j # k => run.results[j].variation # run.results[k].variation
    /\ \A k \in 1..Len(resultsGrid) : resultsGrid[k].variation = (k - 1) + 1

\* A request for five variants has appended four of them.
C15_Witness == run.count = 5 /\ Len(run.results) = 4 /\ pc = "load"

\* An image of the request is being loaded, or its callback has been left
\* without settling the promise.
Composing == pc \in {"load", "fallbackLoad", "threw", "unhandled"}

\* C16: while the image of variant i is loaded or drawn, the results of the
\* variants 0..i-1 and no others have been appended, and of the images the
\* request has started all but this one have ended, in a result or in an
\* error; the image of the next variant is started in the very step that
\* appends the result of variant i.
C16_OneVariantAtATime ==
    [][/\ Composing' =>
              /\ Len(run'.results) = run'.i
              /\ run'.decodes - (Len(run'.results) + run'.errors) = 1
       /\ (Composing /\ Composing' /\ run'.i # run.i) =>
              /\ run'.i = run.i + 1
              /\ Len(run'.results) = Len(run.results) + 1
              /\ SubSeq(run'.results, 1, Len(run.results)) = run.results]_vars

\* The second variant of a request is being composed after the first was
\* replaced by its fallback.
C16_Witness ==
    /\ pc = "load"
    /\ run.i = 1
    /\ run.errors = 1
    /\ Len(run.results) = 1

\* C17: every image of a request is drawn from the source data the request
\* started with, which no step of the request changes; it holds the drawing
\* calls of its own variant only, each function at most once; the image a
\* step composes is what composing that variant on an empty canvas gives,
\* whatever the results before it; and a result once appended is never
\* changed.
C17_VariantsIndependent ==
    [][/\ isProcessing' =>
              /\ run'.imageBase64 = req'.data
              /\ \A k \in 1..Len(run'.results) :
                     LET img == run'.results[k].imageData
                     IN  /\ img.src = req'.data
                         /\ \A j \in 1..Len(img.steps) :
                                img.steps[j].variation = k - 1
                         /\ \A j, m \in 1..Len(img.steps) :
                                j # m => img.steps[j].op # img.steps[m].op
       /\ (isProcessing /\ isProcessing') =>
              /\ run'.imageBase64 = run.imageBase64
              /\ Len(run'.results) >= Len(run.results)
              /\ SubSeq(run'.results, 1, Len(run.results)) = run.results
       /\ Composes =>
              \E rnd \in Randoms \X Randoms :
                  Composed =
                      [src |-> run.imageBase64,
                       steps |-> ApplyImageModifications(
                                     run.enhancedPrompt, run.i, textStyle,
                                     youtubeTitle, rnd)]]_vars

\* Two variants of a request have been composed, each with a keyword effect
\* before its variation effect, and the third is awaited.
C17_Witness ==
    /\ pc = "load"
    /\ Len(run.results) = 2
    /\ Len(run.results[1].imageData.steps) >= 2
    /\ Len(run.results[2].imageData.steps) >= 2

\* C18 as stated: a request decodes its source image once at most, however
\* many variants and fallbacks it composes.
C18_DecodedOncePerRequest == isProcessing => run.decodes <= 1

\* C18 amended: the source data is decoded once for every image a request
\* loads: while the image of variant i is awaited the request has started
\* i + 1 decodes and one more for every load that fired error, and each of
\* them was of the data the request started with.
C18_DecodedOncePerComposition ==
    pc \in {"load", "fallbackLoad"} =>
        /\ run.decodes = run.i + 1 + run.errors
        /\ run.imgSrc[2] = req.data

\* The fifth variant of a request is awaited, after one fallback: the sixth
\* decode of the same data.
C18_Witness ==
    /\ pc = "load"
    /\ run.i = 4
    /\ run.errors = 1
    /\ run.decodes = 6

\* The place of a drawing function in the order tint, brightness wash,
\* darkness wash, blur, text overlay, variation effect.
Rank(op) ==
    CASE op = "applyColorEffect" -> 1
      [] op = "applyBrightnessEffect" -> 2
      [] op = "applyDarknessEffect" -> 3
      [] op = "applyBlurEffect" -> 4
      [] op = "addTextOverlay" -> 5
      [] op = "addVariationEffect" -> 6

\* C19: the drawing calls made on a canvas before it is encoded follow the
\* order tint, brightness wash, darkness wash, blur, text overlay, variation
\* effect, and the variation effect is called exactly once, as the last of
\* them.
C19_FixedOrder ==
    \A img \in Images :
        LET ops == Ops(img)
        IN  /\ \A j, k \in 1..Len(ops) : j < k => Rank(ops[j]) < Rank(ops[k])
            /\ Len(ops) >= 1
            /\ ops[Len(ops)] = "addVariationEffect"
            /\ Cardinality({k \in 1..Len(ops) :
                                ops[k] = "addVariationEffect"}) = 1

\* A variant with all six drawing calls has been composed.
C19_Witness ==
    /\ Len(run.results) >= 1
    /\ Ops(run.results[1].imageData) =
           <<"applyColorEffect", "applyBrightnessEffect",
             "applyDarknessEffect", "applyBlurEffect", "addTextOverlay",
             "addVariationEffect">>

\* The variation effects of an image: the branches of addVariationEffect
\* taken on its canvas.
Effects(imageData) ==
    SelectSeq([k \in 1..Len(imageData.steps) |->
                  IF imageData.steps[k].op = "addVariationEffect"
                  THEN imageData.steps[k].detail
                  ELSE ""],
              LAMBDA d : d # "")

TextSteps(imageData) ==
    SelectSeq(imageData.steps, LAMBDA st : st.op = "addTextOverlay")

\* The text has a character that is not white space.
HasInk(text) == \E k \in 1..Len(text) : text[k] \notin {" ", "\t", "\n", "\r"}

\* C21: composing a variant calls the text renderer exactly when the title
\* field holds more than white space, and then once, with the trimmed title
\* and the drawing function of the selected style: the metallic, balloon or
\* Matrix one for these three values and the plain one for no style and for
\* any other value.
C21_TextRendererIffTitle ==
    [][Composes =>
          LET texts == TextSteps(Composed)
          IN  /\ texts # <<>> <=> HasInk(youtubeTitle)
              /\ Len(texts) <= 1
              /\ texts # <<>> =>
                     /\ HasInk(<<Head(texts[1].text)>>)
                     /\ HasInk(<<texts[1].text[Len(texts[1].text)]>>)
                     /\ Includes(youtubeTitle, texts[1].text)
                     /\ textStyle = Style3DMetallic =>
                            texts[1].detail = "draw3DMetallicText"
                     /\ textStyle = StyleBalloon =>
                            texts[1].detail = "drawBalloonText"
                     /\ textStyle = StyleMatrix =>
                            texts[1].detail = "drawMatrixText"
                     /\ textStyle \notin
                                {Style3DMetallic, StyleBalloon, StyleMatrix} =>
                            texts[1].detail = "drawSimpleText"]_vars

\* A variant has been composed under a style value with no case of its own,
\* and its title was drawn as plain text.
C21_Witness ==
    /\ textStyle = Style3DMetallicLabel
    /\ youtubeTitle = TitleDark
    /\ Len(run.results) = 1
    /\ TextSteps(run.results[1].imageData) # <<>>
    /\ TextSteps(run.results[1].imageData)[1].detail = "drawSimpleText"
    /\ TextSteps(run.results[1].imageData)[1].text = <<"d", "a", "r", "k">>

\* C22: applyColorEffect leaves on every pixel, for every variant index i,
\* the red, green and blue it found multiplied by the factors number i mod 4
\* of (1.2, 0.8, 0.8), (0.8, 0.8, 1.2), (0.8, 1.2, 0.8), (1.1, 1.1, 0.7),
\* or 255 if the product is larger, as the nearest integer in 0..255; the
\* alpha is the one it found.
C22_TintMultipliesAndClamps ==
    [][(pixels.op = "drawImage" /\ pixels'.op = "applyColorEffect") =>
          LET f == CASE run.i % 4 = 0 -> <<12, 8, 8>>
                     [] run.i % 4 = 1 -> <<8, 8, 12>>
                     [] run.i % 4 = 2 -> <<8, 12, 8>>
                     [] run.i % 4 = 3 -> <<11, 11, 7>>
              before == pixels.data
              after == pixels'.data
          IN  /\ Len(after) = Len(before)
              /\ \A k \in 1..Len(before) :
                     IF k % 4 = 0
                     THEN after[k] = before[k]
                     ELSE LET product == before[k] * f[k % 4]
                              target == IF product > 2550 THEN 2550
                                        ELSE product
                          IN  /\ after[k] \in 0..255
                              /\ 10 * after[k] - target \in (0 - 5)..5]_vars

\* The tint for variant index 4 has used the factors (1.2, 0.8, 0.8) on the
\* pixel (213, 212, 255, 128): the red is held at 255 and the alpha kept.
C22_Witness ==
    /\ pixels.op = "applyColorEffect"
    /\ run.i = 4
    /\ pixels.source = <<213, 212, 255, 128>>
    /\ pixels.data = <<255, 170, 204, 128>>

\* The pixel the sepia example is about.
KnownPixel == <<200, 100, 50, 255>>

\* C23 as stated: one application of the sepia case to the pixel
\* (200, 100, 50) leaves the red 183.
C23_SepiaRedIs183 ==
    (pixels.op = "sepia" /\ pixels.source = KnownPixel
         /\ ~Keyword(run.enhancedPrompt, {KwColor, KwBlue, KwRed})) =>
        pixels.data[1] = 183

\* C23 amended: one application of the sepia case leaves on every pixel, as
\* the nearest integers, R' = min(255, 0.393 R + 0.769 G + 0.189 B),
\* G' = min(255, 0.349 R + 0.686 G + 0.168 B) and
\* B' = min(255, 0.272 R + 0.534 G + 0.131 B) of the R, G and B it found,
\* and the alpha it found; for the pixel (200, 100, 50) that is
\* (165, 147, 114): the red is 164.95 rounded.
C23_SepiaMatchesMatrix ==
    [][(pixels.op # "sepia" /\ pixels'.op = "sepia") =>
          LET before == pixels.data
              after == pixels'.data
              sum(k, a, b, c) ==
                  a * before[k] + b * before[k + 1] + c * before[k + 2]
              near(v, total) ==
                  /\ v \in 0..255
                  /\ 1000 * v - (IF total > 255000 THEN 255000 ELSE total)
                         \in (0 - 500)..500
          IN  /\ Len(after) = Len(before)
              /\ \A k \in 1..Len(before) :
                     k % 4 = 1 =>
                         /\ near(after[k], sum(k, 393, 769, 189))
                         /\ near(after[k + 1], sum(k, 349, 686, 168))
                         /\ near(after[k + 2], sum(k, 272, 534, 131))
                         /\ after[k + 3] = before[k + 3]
                         /\ SubSeq(before, k, k + 2) = <<200, 100, 50>> =>
                                SubSeq(after, k, k + 2) = <<165, 147, 114>>]_vars

\* The sepia case has been applied once to a canvas holding the pixel
\* (200, 100, 50) as the image gave it, and has left (165, 147, 114).
C23_Witness ==
    /\ pixels.op = "sepia"
    /\ ~Keyword(run.enhancedPrompt, {KwColor, KwBlue, KwRed})
    /\ pixels.source = KnownPixel
    /\ pixels.data = <<165, 147, 114, 255>>

\* The keywords of the four triggers.
Keywords ==
    {KwColor, KwBlue, KwRed, KwBright, KwLight, KwDark, KwShadow, KwBlur,
     KwSoft}

\* The instruction, the title and the style of a request as the prompt sent
\* for analysis holds them.
Instruction == Trim(req.prompt)

TitlePart ==
    IF HasInk(req.title)
    THEN <<" ", "(", "i", "n", "c", "o", "r", "p", "o", "r", "a", "t", "i",
           "n", "g", " ", "Y", "o", "u", "T", "u", "b", "e", " ", "t", "i",
           "t", "l", "e", ":", " ", "\"">> \o Trim(req.title) \o <<"\"", ")">>
    ELSE <<>>

StylePart ==
    IF req.style # <<>>
    THEN <<" ", "w", "i", "t", "h", " ">> \o req.style
             \o <<" ", "s", "t", "y", "l", "e", " ", "t", "e", "x", "t">>
    ELSE <<>>

\* C24 as stated: the enhanced prompt of a request is the text of the
\* analysis or, for want of one, the trimmed instruction of the request and
\* nothing more.
C24_FallbackIsInstructionVerbatim ==
    pc \in {"load", "fallbackLoad"} =>
        run.enhancedPrompt \in {ApiText, Instruction}

\* C24 amended: for want of a text in the answer, the enhanced prompt is the
\* prompt that was sent for analysis: the trimmed instruction, followed by
\* the title of the request if it has one and by its style if it has one.
\* It is the instruction alone exactly when the request has neither.  Every
\* result of the request carries the enhanced prompt.
C24_FallbackIsFullPrompt ==
    [][/\ (pc = "fetch" /\ pc' = "load") =>
              /\ run'.enhancedPrompt \in
                     {ApiText, Instruction \o TitlePart \o StylePart}
              /\ run'.enhancedPrompt # <<>>
              /\ (run'.enhancedPrompt = Instruction) <=>
                     (run'.enhancedPrompt # ApiText
                          /\ ~HasInk(req.title) /\ req.style = <<>>)
       /\ isProcessing' =>
              \A k \in 1..Len(run'.results) :
                  run'.results[k].prompt = run'.enhancedPrompt]_vars

\* The analysis of a request with the instruction "Red car" and the title
\* " dark " has answered without a text, and the enhanced prompt has the
\* keyword dark, which the instruction has not.
C24_Witness ==
    /\ pc = "load"
    /\ req.prompt = PromptRed
    /\ req.title = TitleDark
    /\ run.enhancedPrompt # ApiText
    /\ Keyword(run.enhancedPrompt, {KwDark})
    /\ ~Keyword(req.prompt, {KwDark})

\* A step in which createFallbackModifiedImage's image loads and its canvas
\* is encoded.
ComposesFallback ==
    /\ pc = "fallbackLoad"
    /\ \/ pc' = "load"
       \/ pc' = "idle" /\ outcome' = "results"

\* C25: the image createFallbackModifiedImage encodes for variant index i is
\* the source data of the request with one drawing call made on it, the
\* variation effect of index i: no tint, wash, blur or text, whatever the
\* enhanced prompt and the title are.
C25_FallbackHasDefaultEffectOnly ==
    [][ComposesFallback =>
          /\ Composed.src = run.imageBase64
          /\ Len(Composed.steps) = 1
          /\ Composed.steps[1].op = "addVariationEffect"
          /\ Composed.steps[1].variation = run.i
          /\ Composed.steps[1].detail =
                 (CASE run.i = 0 -> "vignette"
                    [] run.i = 1 -> "lightRays"
                    [] run.i = 2 -> "sepia"
                    [] OTHER -> "randomTint")]_vars

\* The first variant of a request whose prompt has a keyword of every
\* trigger and whose title is "Hi" was replaced by its fallback, which has
\* the variation effect alone.
C25_Witness ==
    /\ run.errors = 1
    /\ Len(run.results) = 1
    /\ run.enhancedPrompt = PromptAll
    /\ youtubeTitle = TitleHi
    /\ Ops(run.results[1].imageData) = <<"addVariationEffect">>

\* The submit button is disabled exactly when no image is selected, or the
\* instruction is blank, or a request is in flight.
ButtonAsForm ==
    editBtnDisabled <=>
        (selectedImage = <<>> \/ ~HasInk(promptInput) \/ isProcessing)

RequestEnds ==
    \/ pc # "idle" /\ pc' = "idle"
    \/ call' = "started" /\ pc' = "idle"

\* C27: isProcessing is true exactly while a request is suspended at one of
\* its awaits, whether or not that await can still resume; the task in which processImageEdit ends, with results or with
\* an error, leaves isProcessing false and the loading overlay hidden, and
\* has shown the results or the error toast; and a call of processImageEdit
\* returns at its guard only if a request is in flight, no image is selected
\* or the instruction is blank, so that a submit after the end of a request
\* is accepted.
C27_ProcessingWhileInFlight ==
    [][/\ isProcessing' <=> pc' # "idle"
       /\ RequestEnds =>
              /\ ~isProcessing'
              /\ ~loadingOverlay'
              /\ \/ outcome' = "results" /\ resultsShown'
                 \/ /\ outcome' \in {"analysisFailed", "fileRemoved", "noFile"}
                    /\ errorToast' = FailedToEdit
       /\ call' = "returned" =>
              (pc # "idle" \/ selectedImage = <<>> \/ ~HasInk(promptInput))
       /\ call' = "started" => ~isProcessing]_vars

\* A request has ended in error, its toast is still shown, and the next
\* submit has been accepted: a second request awaits its analysis.
C27_Witness ==
    /\ errorToast = FailedToEdit
    /\ call = "started"
    /\ isProcessing
    /\ loadingOverlay
    /\ pc = "fetch"

\* C28: whenever an image is selected, a file is selected too and the image
\* is the contents of that file, at the latest once every read that was
\* started has completed: no read installs the data of a file that has been
\* removed or replaced since.
C28_ImageIsOfSelectedFile ==
    (selectedImage # <<>> /\ readers = {}) =>
        /\ selectedImageFile # NoFile
        /\ selectedImage[2] = FileData(selectedImageFile)

\* C29 as stated: a request in flight when the results were cleared or the
\* form was reset leaves the results section empty and hidden.
C29_ClearedUntilNewRequest ==
    [][(isProcessing /\ req.cleared) =>
          (~resultsShown' /\ resultsGrid' = <<>>)]_vars

\* C29 amended: clearResults and resetForm leave the results section empty
\* and hidden, and it stays so until a request ends with results; the
\* section is shown or filled by nothing else.  A request in flight is not
\* cancelled by them: if it ends with results it shows the section with all
\* of them (none, for a variant count below 1), whether or not the results
\* were cleared or the form reset meanwhile.
C29_ClearedUntilRequestEndsWithResults ==
    [][/\ ((resultsShown' /\ ~resultsShown)
               \/ resultsGrid' \notin {resultsGrid, <<>>}) =>
              (isProcessing /\ pc' = "idle" /\ outcome' = "results")
       /\ (isProcessing /\ pc' = "idle" /\ outcome' = "results") =>
              /\ resultsShown'
              /\ Len(resultsGrid') = IF run.count > 0 THEN run.count ELSE 0
       /\ (req'.cleared /\ ~req.cleared) =>
              (isProcessing' /\ ~resultsShown' /\ resultsGrid' = <<>>)
       /\ (resultsGrid' = <<>> /\ resultsGrid # <<>>) =>
              (~resultsShown' \/ outcome' = "results")]_vars

\* The form was reset or the results cleared while a request was in flight,
\* and the request has displayed its results since.
C29_Witness ==
    /\ req.cleared
    /\ ~isProcessing
    /\ outcome = "results"
    /\ resultsShown
    /\ resultsGrid # <<>>

====
